---- MODULE Spec2Model ----
(***************************************************************************)
(* Hybrid retrieval fusion of support-ticket-search: min-max               *)
(* normalisation, weighted fusion and reciprocal-rank fusion               *)
(* (src/support-ticket-search/src/utils.py, src/search.py).                *)
(*                                                                         *)
(* Python floats are modelled as exact rationals <<numerator, denominator>>*)
(* in lowest terms with a positive denominator, so structural equality is  *)
(* numeric equality.  A candidate is the tuple <<doc_id, raw_score>>, a    *)
(* fused result the tuple <<doc_id, score, b, v>>, as in the source.       *)
(*                                                                         *)
(* Three further specifications model the callers of the fusion: the search*)
(* pipeline of the CLI and of the interactive app (src/cli.py cmd_search,  *)
(* app.py), two consecutive search runs, and the evaluator (cmd_eval).     *)
(* A last one models the commands that build the stores behind the two     *)
(* backends (cmd_ingest, cmd_index, cmd_embed) and the queries over them.  *)
(***************************************************************************)
EXTENDS Integers, Sequences, FiniteSets

VARIABLES bm25_results, vec_results, op, w_bm25, w_vec, rrf_k,
          iter_order, norm_out, blended, raised

(* the search pipeline: caller, position, arguments, environment, locals,  *)
(* output                                                                  *)
VARIABLES caller, pc, blend, use_rerank, top_n, reranker, scorer,
          bm25_out, vec_out, top, failure, printed, run, prev_top,
          prev_blended

(* the evaluator: labeled queries, loop index, accumulators, results *)
VARIABLES queries_file, queries, qi, total_rr, hit, eval_log, mrr, recall_at_k

(* the stores behind the two backends: corpus file, lexical index, vector  *)
(* table                                                                   *)
VARIABLES corpus, whoosh_index, doc_vectors, ingest_seen

fusionVars == <<bm25_results, vec_results, op, w_bm25, w_vec, rrf_k,
                iter_order, norm_out, blended, raised>>

searchVars == <<caller, pc, blend, use_rerank, top_n, reranker, scorer,
                bm25_out, vec_out, top, failure, printed, run, prev_top,
                prev_blended>>

evalVars == <<queries_file, queries, qi, total_rr, hit, eval_log, mrr, recall_at_k>>

ingestVars == <<corpus, whoosh_index, doc_vectors, ingest_seen>>

vars == <<fusionVars, searchVars, evalVars, ingestVars>>

----------------------------------------------------------------------------
(* Bounds of the model *)

MaxLen == 2

DocIds == {"A", "B", "C"}

----------------------------------------------------------------------------
(* Float arithmetic as exact rational arithmetic *)

Abs(x) == IF x < 0 THEN -x ELSE x

RECURSIVE GCD(_, _)
GCD(a, b) == IF b = 0 THEN a ELSE GCD(b, a % b)

Rat(n, d) ==
    LET g == GCD(Abs(n), Abs(d))
        s == IF d < 0 THEN -1 ELSE 1
    IN  <<(s * n) \div g, (s * d) \div g>>

Zero == <<0, 1>>
One == <<1, 1>>

RAdd(x, y) == Rat(x[1] * y[2] + y[1] * x[2], x[2] * y[2])
RSub(x, y) == Rat(x[1] * y[2] - y[1] * x[2], x[2] * y[2])
RMul(x, y) == Rat(x[1] * y[1], x[2] * y[2])
RDiv(x, y) == Rat(x[1] * y[2], x[2] * y[1])
RLess(x, y) == x[1] * y[2] < y[1] * x[2]
RLeq(x, y) == x[1] * y[2] <= y[1] * x[2]

Two == <<2, 1>>

(* raw scores of the lexical backend (BM25, unbounded) and of the vector   *)
(* backend (1/(1+dist), in (0,1])                                          *)
Bm25ScoreVals == {<<1, 1>>, <<2, 1>>, <<4, 1>>}
VecScoreVals == {<<1, 2>>, <<1, 1>>}

(* --w-bm25/--w-vec: the defaults, equal weights, a negative weight *)
WeightPairs == {<<Rat(6, 10), Rat(4, 10)>>, <<One, One>>, <<Rat(-1, 1), One>>}

RrfKs == {-2, 0, 60}

----------------------------------------------------------------------------
(* Ranked lists returned by the two backends *)

IdsOf(results) == {results[i][1] : i \in 1..Len(results)}

NoDuplicateIds(results) ==
    \A i, j \in 1..Len(results) : results[i][1] = results[j][1] => i = j

Descending(results) ==
    \A i \in 1..Len(results) - 1 : RLeq(results[i + 1][2], results[i][2])

RankedListsOfLen(n, ScoreVals) ==
    {r \in [1..n -> DocIds \X ScoreVals] : NoDuplicateIds(r) /\ Descending(r)}

RankedLists(ScoreVals) == UNION {RankedListsOfLen(n, ScoreVals) : n \in 0..MaxLen}

ScenarioLexical == << <<"A", Rat(10, 1)>>, <<"B", Rat(8, 1)>>, <<"C", Rat(2, 1)>> >>
ScenarioVector == << <<"B", Rat(9, 10)>>, <<"C", Rat(1, 2)>>, <<"D", Rat(1, 10)>> >>

InputPairs ==
    (RankedLists(Bm25ScoreVals) \X RankedLists(VecScoreVals))
        \cup {<<ScenarioLexical, ScenarioVector>>}

(* the orders in which iterating over a set of str can yield its elements *)
RECURSIVE Perms(_)
Perms(S) ==
    IF S = {} THEN {<<>>}
    ELSE UNION {{<<x>> \o p : p \in Perms(S \ {x})} : x \in S}

----------------------------------------------------------------------------
(* utils.py *)

RECURSIVE SeqMin(_)
SeqMin(scores) ==
    IF Len(scores) = 1 THEN scores[1]
    ELSE LET m == SeqMin(Tail(scores))
         IN  IF RLess(m, scores[1]) THEN m ELSE scores[1]

RECURSIVE SeqMax(_)
SeqMax(scores) ==
    IF Len(scores) = 1 THEN scores[1]
    ELSE LET m == SeqMax(Tail(scores))
         IN  IF RLess(scores[1], m) THEN m ELSE scores[1]

EmptyDict == [d \in {} |-> Zero]

LastIndexOf(results, doc_id) ==
    CHOOSE i \in 1..Len(results) :
        /\ results[i][1] = doc_id
        /\ \A j \in (i + 1)..Len(results) : results[j][1] # doc_id

(* variants of minmax_norm: the score is not shifted by the minimum; a flat  *)
(* list is mapped to 0.0                                                    *)
minmax_norm_unshifted(results) ==
    IF results = <<>> THEN EmptyDict
    ELSE LET scores == [i \in 1..Len(results) |-> results[i][2]]
             lo == SeqMin(scores)
             hi == SeqMax(scores)
         IN  IF hi = lo
             THEN [doc_id \in IdsOf(results) |-> One]
             ELSE [doc_id \in IdsOf(results) |->
                      RDiv(results[LastIndexOf(results, doc_id)][2], RSub(hi, lo))]

minmax_norm_flat_zero(results) ==
    IF results = <<>> THEN EmptyDict
    ELSE LET scores == [i \in 1..Len(results) |-> results[i][2]]
             lo == SeqMin(scores)
             hi == SeqMax(scores)
         IN  IF hi = lo
             THEN [doc_id \in IdsOf(results) |-> Zero]
             ELSE [doc_id \in IdsOf(results) |->
                      RDiv(RSub(results[LastIndexOf(results, doc_id)][2], lo),
                           RSub(hi, lo))]

minmax_norm(results) ==
    IF results = <<>> THEN EmptyDict
    ELSE LET scores == [i \in 1..Len(results) |-> results[i][2]]
             lo == SeqMin(scores)
             hi == SeqMax(scores)
         IN  IF hi = lo
             THEN [doc_id \in IdsOf(results) |-> One]
             ELSE [doc_id \in IdsOf(results) |->
                      RDiv(RSub(results[LastIndexOf(results, doc_id)][2], lo),
                           RSub(hi, lo))]

----------------------------------------------------------------------------
(* search.py *)

DictGet(dict, key, default) == IF key \in DOMAIN dict THEN dict[key] ELSE default

(* variants of the sort: ascending (reverse=True dropped); equal keys in    *)
(* reverse order of arrival (an unstable descending sort)                  *)
RECURSIVE InsertDesc_ascending(_, _)
InsertDesc_ascending(sorted, x) ==
    IF sorted = <<>> THEN <<x>>
    ELSE IF RLess(x[2], sorted[1][2]) THEN <<x>> \o sorted
    ELSE <<sorted[1]>> \o InsertDesc_ascending(Tail(sorted), x)

RECURSIVE InsertDesc_ties_reversed(_, _)
InsertDesc_ties_reversed(sorted, x) ==
    IF sorted = <<>> THEN <<x>>
    ELSE IF RLeq(sorted[1][2], x[2]) THEN <<x>> \o sorted
    ELSE <<sorted[1]>> \o InsertDesc_ties_reversed(Tail(sorted), x)

(* list.sort(key=score, reverse=True) is stable: x goes behind every entry *)
(* whose score is not smaller                                              *)
RECURSIVE InsertDesc(_, _)
InsertDesc(sorted, x) ==
    IF sorted = <<>> THEN <<x>>
    ELSE IF RLess(sorted[1][2], x[2]) THEN <<x>> \o sorted
    ELSE <<sorted[1]>> \o InsertDesc(Tail(sorted), x)

RECURSIVE SortOnto(_, _)
SortOnto(sorted, rest) ==
    IF rest = <<>> THEN sorted
    ELSE SortOnto(InsertDesc(sorted, rest[1]), Tail(rest))

SortByScoreDesc(list) == SortOnto(<<>>, list)

(* variants of the blend: weights applied to the wrong component; the      *)
(* vector component added unweighted                                       *)
BlendEntry_swapped_weights(bm25_norm, vec_norm, wb, wv, doc_id) ==
    LET b == DictGet(bm25_norm, doc_id, Zero)
        v == DictGet(vec_norm, doc_id, Zero)
        score == RAdd(RMul(wv, b), RMul(wb, v))
    IN  <<doc_id, score, b, v>>

BlendEntry_unweighted_vec(bm25_norm, vec_norm, wb, wv, doc_id) ==
    LET b == DictGet(bm25_norm, doc_id, Zero)
        v == DictGet(vec_norm, doc_id, Zero)
        score == RAdd(RMul(wb, b), v)
    IN  <<doc_id, score, b, v>>

BlendEntry(bm25_norm, vec_norm, wb, wv, doc_id) ==
    LET b == DictGet(bm25_norm, doc_id, Zero)
        v == DictGet(vec_norm, doc_id, Zero)
        score == RAdd(RMul(wb, b), RMul(wv, v))
    IN  <<doc_id, score, b, v>>

(* variant: intersection instead of union *)
AllIds_intersection(bm25, vec) == DOMAIN minmax_norm(bm25) \cap DOMAIN minmax_norm(vec)

AllIds(bm25, vec) == DOMAIN minmax_norm(bm25) \cup DOMAIN minmax_norm(vec)

blend_scores(bm25, vec, wb, wv, order) ==
    LET bm25_norm == minmax_norm(bm25)
        vec_norm == minmax_norm(vec)
        appended == [i \in 1..Len(order) |->
                        BlendEntry(bm25_norm, vec_norm, wb, wv, order[i])]
    IN  SortByScoreDesc(appended)

(* variant: the contribution overwrites the running total *)
RECURSIVE DictAdd_overwrite(_, _, _)
DictAdd_overwrite(scores, doc_id, inc) ==
    IF scores = <<>> THEN << <<doc_id, inc>> >>
    ELSE IF scores[1][1] = doc_id
         THEN << <<doc_id, inc>> >> \o Tail(scores)
         ELSE <<scores[1]>> \o DictAdd_overwrite(Tail(scores), doc_id, inc)

(* scores[doc_id] = scores.get(doc_id, 0.0) + inc on an insertion-ordered   *)
(* dict, kept as the sequence of its <<key, value>> items                  *)
RECURSIVE DictAdd(_, _, _)
DictAdd(scores, doc_id, inc) ==
    IF scores = <<>> THEN << <<doc_id, RAdd(Zero, inc)>> >>
    ELSE IF scores[1][1] = doc_id
         THEN << <<doc_id, RAdd(scores[1][2], inc)>> >> \o Tail(scores)
         ELSE <<scores[1]>> \o DictAdd(Tail(scores), doc_id, inc)

(* variants of the loop: ranks counted from 0; the contribution scaled by   *)
(* the raw score                                                           *)
RECURSIVE Accumulate_zero_based(_, _, _, _)
Accumulate_zero_based(scores, results, k, rank) ==
    IF rank > Len(results) THEN scores
    ELSE Accumulate_zero_based(
             DictAdd(scores, results[rank][1], RDiv(One, Rat(k + rank - 1, 1))),
             results, k, rank + 1)

RECURSIVE Accumulate_score_weighted(_, _, _, _)
Accumulate_score_weighted(scores, results, k, rank) ==
    IF rank > Len(results) THEN scores
    ELSE Accumulate_score_weighted(
             DictAdd(scores, results[rank][1], RDiv(results[rank][2], Rat(k + rank, 1))),
             results, k, rank + 1)

(* for rank, (doc_id, _) in enumerate(results, start=1) *)
RECURSIVE Accumulate(_, _, _, _)
Accumulate(scores, results, k, rank) ==
    IF rank > Len(results) THEN scores
    ELSE Accumulate(DictAdd(scores, results[rank][1], RDiv(One, Rat(k + rank, 1))),
                    results, k, rank + 1)

(* 1.0 / (k + rank) raises ZeroDivisionError when k + rank = 0 *)
RrfRaises(bm25, vec, k) ==
    \E rank \in (1..Len(bm25)) \cup (1..Len(vec)) : k + rank = 0

rrf_blend(bm25, vec, k) ==
    LET scores == Accumulate(Accumulate(<<>>, bm25, k, 1), vec, k, 1)
        items == [i \in 1..Len(scores) |-> <<scores[i][1], scores[i][2], Zero, Zero>>]
    IN  SortByScoreDesc(items)

----------------------------------------------------------------------------
(* State machine: one call of a pure function on the backends' results;     *)
(* op = "none" is the state before the call, afterwards op names the call. *)

(* no search pipeline is running *)
SearchIdle ==
    /\ caller = "none"
    /\ pc = "idle"
    /\ blend = "none"
    /\ use_rerank = FALSE
    /\ top_n = 0
    /\ reranker = "unused"
    /\ scorer = EmptyDict
    /\ bm25_out = <<>>
    /\ vec_out = <<>>
    /\ top = <<>>
    /\ failure = "none"
    /\ printed = {}
    /\ run = 0
    /\ prev_top = <<>>
    /\ prev_blended = <<>>

(* no evaluation is running *)
NoFile == [exists |-> FALSE, lines |-> <<>>]

EvalIdle ==
    /\ queries_file = NoFile
    /\ queries = <<>>
    /\ qi = 0
    /\ total_rr = Zero
    /\ hit = 0
    /\ eval_log = <<>>
    /\ mrr = Zero
    /\ recall_at_k = Zero

(* nothing has been ingested, indexed or embedded *)
IngestIdle ==
    /\ corpus = <<>>
    /\ whoosh_index = [built |-> FALSE, docs |-> <<>>]
    /\ doc_vectors = [built |-> FALSE, rows |-> <<>>]
    /\ ingest_seen = {}

Init ==
    /\ SearchIdle
    /\ EvalIdle
    /\ IngestIdle
    /\ \E pair \in InputPairs :
          /\ bm25_results = pair[1]
          /\ vec_results = pair[2]
    /\ op = "none"
    /\ w_bm25 = Zero
    /\ w_vec = Zero
    /\ rrf_k = 0
    /\ iter_order = <<>>
    /\ norm_out = EmptyDict
    /\ blended = <<>>
    /\ raised = "none"

NormalizeLexical ==
    /\ op = "none"
    /\ op' = "minmax_norm_bm25"
    /\ norm_out' = minmax_norm(bm25_results)
    /\ blended' = <<>>
    /\ iter_order' = <<>>
    /\ raised' = "none"
    /\ w_bm25' = Zero /\ w_vec' = Zero /\ rrf_k' = 0
    /\ UNCHANGED <<bm25_results, vec_results, searchVars, evalVars, ingestVars>>

NormalizeVector ==
    /\ op = "none"
    /\ op' = "minmax_norm_vec"
    /\ norm_out' = minmax_norm(vec_results)
    /\ blended' = <<>>
    /\ iter_order' = <<>>
    /\ raised' = "none"
    /\ w_bm25' = Zero /\ w_vec' = Zero /\ rrf_k' = 0
    /\ UNCHANGED <<bm25_results, vec_results, searchVars, evalVars, ingestVars>>

BlendScores ==
    \E w \in WeightPairs :
      \E order \in Perms(AllIds(bm25_results, vec_results)) :
        /\ op = "none"
        /\ op' = "blend_scores"
        /\ w_bm25' = w[1]
        /\ w_vec' = w[2]
        /\ iter_order' = order
        /\ blended' = blend_scores(bm25_results, vec_results, w[1], w[2], order)
        /\ norm_out' = EmptyDict
        /\ raised' = "none"
        /\ rrf_k' = 0
        /\ UNCHANGED <<bm25_results, vec_results, searchVars, evalVars, ingestVars>>

RrfBlend ==
    \E k \in RrfKs :
        /\ op = "none"
        /\ op' = "rrf_blend"
        /\ rrf_k' = k
        /\ raised' = IF RrfRaises(bm25_results, vec_results, k)
                     THEN "ZeroDivisionError" ELSE "none"
        /\ blended' = IF RrfRaises(bm25_results, vec_results, k)
                      THEN <<>> ELSE rrf_blend(bm25_results, vec_results, k)
        /\ iter_order' = <<>>
        /\ norm_out' = EmptyDict
        /\ w_bm25' = Zero /\ w_vec' = Zero
        /\ UNCHANGED <<bm25_results, vec_results, searchVars, evalVars, ingestVars>>

Next == NormalizeLexical \/ NormalizeVector \/ BlendScores \/ RrfBlend

Spec == Init /\ [][Next]_vars

----------------------------------------------------------------------------
(* Vocabulary of the properties, defined independently of the code above *)

NormOps == {"minmax_norm_bm25", "minmax_norm_vec"}

NormInput == IF op = "minmax_norm_bm25" THEN bm25_results ELSE vec_results

AllEqualScores(results) ==
    \A i, j \in 1..Len(results) : results[i][2] = results[j][2]

PosOfId(results, doc_id) == CHOOSE i \in 1..Len(results) : results[i][1] = doc_id

ScoreSet(results) == {results[i][2] : i \in 1..Len(results)}

LeastOf(S) == CHOOSE x \in S : \A y \in S : RLeq(x, y)

GreatestOf(S) == CHOOSE x \in S : \A y \in S : RLeq(y, x)

(* the normalized score of doc_id in a duplicate-free list: 0 when absent, *)
(* 1 in a flat list, (score - min) / (max - min) otherwise                 *)
ExpectedNorm(results, doc_id) ==
    IF doc_id \notin IdsOf(results) THEN Zero
    ELSE LET lo == LeastOf(ScoreSet(results))
             hi == GreatestOf(ScoreSet(results))
         IN  IF lo = hi THEN One
             ELSE RDiv(RSub(results[PosOfId(results, doc_id)][2], lo), RSub(hi, lo))

UnionIds == IdsOf(bm25_results) \cup IdsOf(vec_results)

BlendedIds == [i \in 1..Len(blended) |-> blended[i][1]]

IsScenario == bm25_results = ScenarioLexical /\ vec_results = ScenarioVector

----------------------------------------------------------------------------
(* C1: every value of minmax_norm(L) lies in [0,1], and minmax_norm of the *)
(* empty list is the empty mapping, returned without an error.             *)
Thm_C1_NormWithinUnitInterval ==
    op \in NormOps =>
        /\ raised = "none"
        /\ \A d \in DOMAIN norm_out :
              RLeq(Zero, norm_out[d]) /\ RLeq(norm_out[d], One)
        /\ NormInput = <<>> => norm_out = EmptyDict

Wit_C1_StrictlyInsideValue ==
    /\ op \in NormOps
    /\ \E d \in DOMAIN norm_out : RLess(Zero, norm_out[d]) /\ RLess(norm_out[d], One)

(* C2: a non-empty list whose raw scores are all equal (a single candidate *)
(* included) has every one of its ids mapped to 1.0.                       *)
Thm_C2_FlatListMapsToOne ==
    (op \in NormOps /\ NormInput # <<>> /\ AllEqualScores(NormInput)) =>
        /\ raised = "none"
        /\ DOMAIN norm_out = IdsOf(NormInput)
        /\ \A d \in IdsOf(NormInput) : norm_out[d] = One

Wit_C2_FlatListOfTwo ==
    /\ op \in NormOps
    /\ Len(NormInput) >= 2
    /\ AllEqualScores(NormInput)
    /\ \A d \in IdsOf(NormInput) : norm_out[d] = One

(* C3: blend_scores returns, for each document id of either list, the      *)
(* tuple (id, w_bm25*b + w_vec*v, b, v) with b and v the id's min-max      *)
(* normalized scores in the lexical and the vector list (0 when absent);   *)
(* on the lists [(A,10),(B,8),(C,2)] and [(B,0.9),(C,0.5),(D,0.1)] with    *)
(* weights 0.6/0.4 the result is B=0.85, A=0.6, C=0.2, D=0.0 in that order.*)
ExpectedBlendTuple(doc_id) ==
    LET b == ExpectedNorm(bm25_results, doc_id)
        v == ExpectedNorm(vec_results, doc_id)
    IN  <<doc_id, RAdd(RMul(w_bm25, b), RMul(w_vec, v)), b, v>>

ScenarioBlended ==
    << <<"B", Rat(85, 100), Rat(75, 100), One>>,
       <<"A", Rat(6, 10), One, Zero>>,
       <<"C", Rat(2, 10), Zero, Rat(1, 2)>>,
       <<"D", Zero, Zero, Zero>> >>

Thm_C3_BlendFormulaAndScenario ==
    op = "blend_scores" =>
        /\ \A i \in 1..Len(blended) : blended[i] = ExpectedBlendTuple(blended[i][1])
        /\ \A d \in UnionIds : \E i \in 1..Len(blended) : blended[i][1] = d
        /\ (IsScenario /\ w_bm25 = Rat(6, 10) /\ w_vec = Rat(4, 10))
              => blended = ScenarioBlended

Wit_C3_ScenarioBlended ==
    /\ op = "blend_scores"
    /\ IsScenario
    /\ w_bm25 = Rat(6, 10) /\ w_vec = Rat(4, 10)
    /\ BlendedIds = <<"B", "A", "C", "D">>

(* C4: the ids in the output of blend_scores are exactly the union of the  *)
(* ids of the two lists, each once; an id missing from one list has that   *)
(* component equal to 0; two empty lists give an empty output, no error.   *)
Thm_C4_BlendIdsAreUnion ==
    op = "blend_scores" =>
        /\ raised = "none"
        /\ {blended[i][1] : i \in 1..Len(blended)} = UnionIds
        /\ \A i, j \in 1..Len(blended) : blended[i][1] = blended[j][1] => i = j
        /\ \A i \in 1..Len(blended) :
              /\ blended[i][1] \notin IdsOf(bm25_results) => blended[i][3] = Zero
              /\ blended[i][1] \notin IdsOf(vec_results) => blended[i][4] = Zero
        /\ (bm25_results = <<>> /\ vec_results = <<>>) => blended = <<>>

Wit_C4_OneSidedDocuments ==
    /\ op = "blend_scores"
    /\ IdsOf(bm25_results) \ IdsOf(vec_results) # {}
    /\ IdsOf(vec_results) \ IdsOf(bm25_results) # {}
    /\ IdsOf(vec_results) \cap IdsOf(bm25_results) # {}
    /\ Len(blended) = Cardinality(UnionIds)

(* C5: weighted fusion is linear in its weights: blend_scores called with  *)
(* (2*w_bm25, 2*w_vec) on the same lists (same process, hence the same     *)
(* iteration order of the id set) gives every document exactly twice the   *)
(* fused score and the same document order.                                *)
Thm_C5_DoublingWeights ==
    op = "blend_scores" =>
        LET doubled == blend_scores(bm25_results, vec_results,
                                    RMul(Two, w_bm25), RMul(Two, w_vec), iter_order)
        IN  /\ Len(doubled) = Len(blended)
            /\ \A i \in 1..Len(blended) :
                  /\ doubled[i][1] = blended[i][1]
                  /\ doubled[i][2] = RMul(Two, blended[i][2])

Wit_C5_DistinctNonzeroScores ==
    /\ op = "blend_scores"
    /\ Len(blended) >= 3
    /\ w_bm25 # Zero /\ w_vec # Zero
    /\ \E i, j \in 1..Len(blended) :
          blended[i][2] # blended[j][2] /\ blended[i][2] # Zero /\ blended[j][2] # Zero

----------------------------------------------------------------------------
(* C6: for duplicate-free lists, rrf_blend gives each document the sum,    *)
(* over the lists that contain it, of 1/(k + r), r its 1-based position    *)
(* (added, not averaged), and reports both component scores as 0.          *)
RankContribution(results, doc_id) ==
    IF doc_id \in IdsOf(results)
    THEN RDiv(One, Rat(rrf_k + PosOfId(results, doc_id), 1))
    ELSE Zero

ExpectedRrfTuple(doc_id) ==
    <<doc_id,
      RAdd(RankContribution(bm25_results, doc_id), RankContribution(vec_results, doc_id)),
      Zero, Zero>>

RrfAsClaimed ==
    /\ raised = "none"
    /\ {blended[i][1] : i \in 1..Len(blended)} = UnionIds
    /\ \A i, j \in 1..Len(blended) : blended[i][1] = blended[j][1] => i = j
    /\ \A i \in 1..Len(blended) : blended[i] = ExpectedRrfTuple(blended[i][1])

SomeRankCancelsK ==
    \E r \in (1..Len(bm25_results)) \cup (1..Len(vec_results)) : rrf_k + r = 0

(* C6 as stated: for any constant k *)
Orig_C6_RrfSumForAnyK ==
    op = "rrf_blend" => RrfAsClaimed

(* C6 amended: for any k with k + r # 0 for every rank r of either list;   *)
(* otherwise rrf_blend raises ZeroDivisionError and returns nothing        *)
Thm_C6_RrfSumOfReciprocalRanks ==
    op = "rrf_blend" =>
        IF SomeRankCancelsK
        THEN raised = "ZeroDivisionError"
        ELSE RrfAsClaimed

Wit_C6_DocumentAtTwoRanks ==
    /\ op = "rrf_blend"
    /\ raised = "none"
    /\ \E d \in IdsOf(bm25_results) \cap IdsOf(vec_results) :
          /\ PosOfId(bm25_results, d) # PosOfId(vec_results, d)
          /\ \E i \in 1..Len(blended) :
                blended[i] = <<d, RAdd(Rat(1, rrf_k + PosOfId(bm25_results, d)),
                                       Rat(1, rrf_k + PosOfId(vec_results, d))),
                               Zero, Zero>>

(* C7: k=60, lexical order [A,B,C], vector order [B,C,D]: A=1/61,          *)
(* B=1/62+1/61, C=1/63+1/62, D=1/63.                                       *)
IdSeq(results) == [i \in 1..Len(results) |-> results[i][1]]

IsRrfScenario ==
    /\ op = "rrf_blend"
    /\ rrf_k = 60
    /\ IdSeq(bm25_results) = <<"A", "B", "C">>
    /\ IdSeq(vec_results) = <<"B", "C", "D">>

ScoreA == <<"A", Rat(1, 61), Zero, Zero>>
ScoreB == <<"B", RAdd(Rat(1, 62), Rat(1, 61)), Zero, Zero>>
ScoreC == <<"C", RAdd(Rat(1, 63), Rat(1, 62)), Zero, Zero>>
ScoreD == <<"D", Rat(1, 63), Zero, Zero>>

(* C7 as stated: returned in the order B, A, C, D *)
Orig_C7_RrfScenarioOrderBACD ==
    IsRrfScenario => blended = <<ScoreB, ScoreA, ScoreC, ScoreD>>

(* C7 amended: the same scores, returned in the order B, C, A, D           *)
(* (1/63 + 1/62 > 1/61)                                                    *)
Thm_C7_RrfScenarioOrderBCAD ==
    IsRrfScenario => blended = <<ScoreB, ScoreC, ScoreA, ScoreD>>

Wit_C7_RrfScenario ==
    /\ IsRrfScenario
    /\ raised = "none"
    /\ BlendedIds = <<"B", "C", "A", "D">>

(* C8: RRF is scale-invariant: replacing the raw scores of either list by  *)
(* any other raw scores, the order of the ids kept, leaves the outcome of  *)
(* rrf_blend (ids, scores, order) unchanged.                               *)
AltScoreVals == {Rat(1, 100), Rat(5000, 1)}

Rescored(results) ==
    {[i \in 1..Len(results) |-> <<results[i][1], f[i]>>] :
        f \in [1..Len(results) -> AltScoreVals]}

RrfOutcome(bm25, vec, k) ==
    IF RrfRaises(bm25, vec, k)
    THEN <<"ZeroDivisionError", <<>> >>
    ELSE <<"none", rrf_blend(bm25, vec, k)>>

Thm_C8_RrfIgnoresRawScores ==
    op = "rrf_blend" =>
        \A b2 \in Rescored(bm25_results) \cup {bm25_results} :
            \A v2 \in Rescored(vec_results) \cup {vec_results} :
                RrfOutcome(b2, v2, rrf_k) = <<raised, blended>>

Wit_C8_ListsWithDistinctScores ==
    /\ op = "rrf_blend"
    /\ raised = "none"
    /\ Len(bm25_results) >= 2 /\ ~AllEqualScores(bm25_results)
    /\ Len(vec_results) >= 2 /\ ~AllEqualScores(vec_results)
    /\ IdsOf(bm25_results) \cap IdsOf(vec_results) # {}
    /\ Len(blended) = Cardinality(UnionIds)

(* C9: the list returned by blend_scores and the one returned by rrf_blend *)
(* are sorted in non-increasing order of fused score, for all weights      *)
(* (negative ones too) and all RRF constants.                              *)
FusionOps == {"blend_scores", "rrf_blend"}

Thm_C9_SortedByFusedScore ==
    (op \in FusionOps /\ raised = "none") =>
        \A i \in 1..Len(blended) - 1 : RLeq(blended[i + 1][2], blended[i][2])

Wit_C9_NegativeWeightStrictOrder ==
    /\ op = "blend_scores"
    /\ RLess(w_bm25, Zero)
    /\ Len(blended) >= 3
    /\ \A i \in 1..Len(blended) - 1 : RLess(blended[i + 1][2], blended[i][2])

(* C10: in every fused result list two documents with equal fused score    *)
(* appear in ascending document_id order.                                  *)
Alphabet == <<"A", "B", "C", "D">>

DocIdLess(a, b) ==
    (CHOOSE i \in 1..Len(Alphabet) : Alphabet[i] = a)
        < (CHOOSE i \in 1..Len(Alphabet) : Alphabet[i] = b)

FirstIndexIn(seq, x) ==
    CHOOSE i \in 1..Len(seq) : seq[i] = x /\ \A j \in 1..(i - 1) : seq[j] # x

(* the order in which the fusion loop produced the entries before the sort *)
ProducedOrder ==
    IF op = "blend_scores" THEN iter_order
    ELSE IdSeq(bm25_results) \o IdSeq(vec_results)

(* C10 as stated *)
Orig_C10_TiesAscendingById ==
    (op \in FusionOps /\ raised = "none") =>
        \A i, j \in 1..Len(blended) :
            (i < j /\ blended[i][2] = blended[j][2])
                => DocIdLess(blended[i][1], blended[j][1])

(* C10 amended: documents with equal fused score keep the order in which   *)
(* the fusion loop produced them (first occurrence in the lexical list,    *)
(* then the vector list, for rrf_blend; the iteration order of the id set  *)
(* for blend_scores), which need not be ascending by document_id           *)
Thm_C10_TiesKeepProducedOrder ==
    (op \in FusionOps /\ raised = "none") =>
        \A i, j \in 1..Len(blended) :
            (i < j /\ blended[i][2] = blended[j][2])
                => FirstIndexIn(ProducedOrder, blended[i][1])
                       < FirstIndexIn(ProducedOrder, blended[j][1])

Wit_C10_TieInDescendingIdOrder ==
    /\ op = "rrf_blend"
    /\ raised = "none"
    /\ \E i, j \in 1..Len(blended) :
          /\ i < j
          /\ blended[i][2] = blended[j][2]
          /\ DocIdLess(blended[j][1], blended[i][1])

----------------------------------------------------------------------------
(* cli.py cmd_search and the search page of app.py *)

Callers == {"cli", "app"}

BlendModes == {"weighted", "rrf"}

TopNs == {1, 2}

(* raw scores of the two backends in the pipeline runs *)
SearchBm25Vals == {One, Two}
SearchVecVals == {One}

SearchInputPairs == RankedLists(SearchBm25Vals) \X RankedLists(SearchVecVals)

(* --w-bm25 0.6, --w-vec 0.4, --rrf-k 60: the defaults of both callers *)
DefaultWBm25 == Rat(6, 10)
DefaultWVec == Rat(4, 10)
DefaultRrfK == 60

(* model.predict: a relevance score per (query, document text) pair; two    *)
(* scorers, one with all scores distinct and one with equal scores          *)
ScorerFns ==
    {[d \in DocIds |-> CASE d = "A" -> Rat(1, 1) [] d = "B" -> Rat(2, 1) [] OTHER -> Rat(3, 1)],
     [d \in DocIds |-> CASE d = "A" -> Rat(-1, 1) [] d = "B" -> Rat(-1, 1) [] OTHER -> Rat(2, 1)]}

(* seq[:n] *)
PySlice(seq, n) ==
    LET len == Len(seq)
        stop == IF n < 0
                THEN (IF len + n < 0 THEN 0 ELSE len + n)
                ELSE (IF n > len THEN len ELSE n)
    IN  SubSeq(seq, 1, stop)

(* variants of rerank: the old fused score is kept next to the new order;   *)
(* only the entries that fit a fixed cut are rescored                      *)
rerank_keeps_components(fused, sc) ==
    LET rescored == [i \in 1..Len(fused) |-> <<fused[i][1], sc[fused[i][1]], fused[i][3], fused[i][4]>>]
    IN  SortByScoreDesc(rescored)

(* rerank with the cross-encoder loaded: cli.py lines 138-153 *)
rerank(fused, sc) ==
    LET rescored == [i \in 1..Len(fused) |-> <<fused[i][1], sc[fused[i][1]]>>]
        sorted == SortByScoreDesc(rescored)
    IN  [i \in 1..Len(sorted) |-> <<sorted[i][1], sorted[i][2], Zero, Zero>>]

(* cli.py lines 114-115; app.py lines 70-76, where the rerank sits inside   *)
(* the else branch of `if blend == "rrf"`                                  *)
RerankApplies ==
    IF caller = "cli" THEN use_rerank ELSE (blend # "rrf" /\ use_rerank)

(* how an exception reaches the user: the CLI lets it propagate out of     *)
(* main, the app reports the backends' exceptions with st.error            *)
ErrorChannel == IF caller = "cli" THEN "traceback" ELSE "st.error"

SearchInit ==
    /\ EvalIdle
    /\ IngestIdle
    /\ \E pair \in SearchInputPairs :
          /\ bm25_results = pair[1]
          /\ vec_results = pair[2]
    /\ op = "none"
    /\ w_bm25 = Zero
    /\ w_vec = Zero
    /\ rrf_k = 0
    /\ iter_order = <<>>
    /\ norm_out = EmptyDict
    /\ blended = <<>>
    /\ raised = "none"
    /\ caller \in Callers
    /\ pc = "start"
    /\ blend \in BlendModes
    /\ use_rerank \in BOOLEAN
    /\ top_n \in TopNs
    /\ reranker = "unused"
    /\ scorer = EmptyDict
    /\ bm25_out = <<>>
    /\ vec_out = <<>>
    /\ top = <<>>
    /\ failure = "none"
    /\ printed = {}
    /\ run = 1
    /\ prev_top = <<>>
    /\ prev_blended = <<>>

argVars == <<caller, blend, use_rerank, top_n, run, prev_top, prev_blended>>

backendVars == <<bm25_results, vec_results>>

Bm25Search ==
    /\ pc = "start"
    /\ bm25_out' = bm25_results
    /\ pc' = "bm25_done"
    /\ UNCHANGED <<backendVars, op, w_bm25, w_vec, rrf_k, iter_order, norm_out,
                   blended, raised, argVars, reranker, scorer, vec_out, top,
                   failure, printed, evalVars, ingestVars>>

SearchFailsWith(stage, channel) ==
    /\ failure' = stage
    /\ printed' = printed \cup {channel}
    /\ pc' = "failed"
    /\ UNCHANGED <<backendVars, op, w_bm25, w_vec, rrf_k, iter_order, norm_out,
                   blended, raised, argVars, reranker, scorer, bm25_out, vec_out,
                   top, evalVars, ingestVars>>

Bm25SearchFails ==
    /\ pc = "start"
    /\ SearchFailsWith("bm25_search", ErrorChannel)

VectorSearch ==
    /\ pc = "bm25_done"
    /\ vec_out' = vec_results
    /\ pc' = "vec_done"
    /\ UNCHANGED <<backendVars, op, w_bm25, w_vec, rrf_k, iter_order, norm_out,
                   blended, raised, argVars, reranker, scorer, bm25_out, top,
                   failure, printed, evalVars, ingestVars>>

(* _try_load_vss returns False: RuntimeError("DuckDB vss extension ...") *)
VectorSearchNoVss ==
    /\ pc = "bm25_done"
    /\ SearchFailsWith("vss_required", ErrorChannel)

(* variant: the failure is absorbed and the search goes on with an empty   *)
(* vector list                                                             *)
VectorSearchFails_absorbed ==
    /\ pc = "bm25_done"
    /\ failure' = "vector_search"
    /\ vec_out' = <<>>
    /\ pc' = "vec_done"
    /\ UNCHANGED <<backendVars, op, w_bm25, w_vec, rrf_k, iter_order, norm_out,
                   blended, raised, argVars, reranker, scorer, bm25_out, top,
                   printed, evalVars, ingestVars>>

(* duckdb.connect or the query raises *)
VectorSearchFails ==
    /\ pc = "bm25_done"
    /\ SearchFailsWith("vector_search", ErrorChannel)

FuseRrf ==
    /\ pc = "vec_done"
    /\ blend = "rrf"
    /\ op' = "rrf_blend"
    /\ rrf_k' = DefaultRrfK
    /\ blended' = rrf_blend(bm25_out, vec_out, DefaultRrfK)
    /\ pc' = "fused"
    /\ UNCHANGED <<backendVars, w_bm25, w_vec, iter_order, norm_out, raised,
                   argVars, reranker, scorer, bm25_out, vec_out, top, failure,
                   printed, evalVars, ingestVars>>

(* the iteration order of all_ids is fixed by the process's string hash    *)
(* seed: the app serves every run from one process, each CLI run is a new  *)
(* process                                                                 *)
IterationOrders ==
    IF caller = "app" /\ run = 2 /\ op = "blend_scores"
    THEN {iter_order}
    ELSE Perms(AllIds(bm25_out, vec_out))

FuseWeighted ==
    /\ pc = "vec_done"
    /\ blend # "rrf"
    /\ \E order \in IterationOrders :
          /\ iter_order' = order
          /\ blended' = blend_scores(bm25_out, vec_out, DefaultWBm25, DefaultWVec, order)
    /\ op' = "blend_scores"
    /\ w_bm25' = DefaultWBm25
    /\ w_vec' = DefaultWVec
    /\ pc' = "fused"
    /\ UNCHANGED <<backendVars, rrf_k, norm_out, raised, argVars, reranker, scorer,
                   bm25_out, vec_out, top, failure, printed, evalVars, ingestVars>>

SkipRerank ==
    /\ pc = "fused"
    /\ ~RerankApplies
    /\ pc' = "reranked"
    /\ UNCHANGED <<fusionVars, argVars, reranker, scorer, bm25_out, vec_out, top,
                   failure, printed, evalVars, ingestVars>>

(* the environment of the second run is that of the first *)
RerankerIs(state) == run = 1 \/ reranker = state

(* variant: the ImportError is not caught *)
RerankNotInstalled_raises ==
    /\ pc = "fused"
    /\ RerankApplies
    /\ RerankerIs("not_installed")
    /\ reranker' = "not_installed"
    /\ failure' = "rerank_import"
    /\ printed' = printed \cup {"traceback"}
    /\ pc' = "failed"
    /\ UNCHANGED <<fusionVars, argVars, scorer, bm25_out, vec_out, top, evalVars, ingestVars>>

(* from sentence_transformers import CrossEncoder fails: cli.py 131-136 *)
RerankNotInstalled ==
    /\ pc = "fused"
    /\ RerankApplies
    /\ RerankerIs("not_installed")
    /\ reranker' = "not_installed"
    /\ printed' = printed \cup {"rerank_not_installed"}
    /\ pc' = "reranked"
    /\ UNCHANGED <<fusionVars, argVars, scorer, bm25_out, vec_out, top, failure,
                   evalVars, ingestVars>>

(* CrossEncoder(model_name) or model.predict raises: cli.py 147-148; the    *)
(* exception leaves rerank and neither caller catches it                   *)
RerankModelFails ==
    /\ pc = "fused"
    /\ RerankApplies
    /\ RerankerIs("model_fails")
    /\ reranker' = "model_fails"
    /\ failure' = "rerank_model"
    /\ printed' = printed \cup {"traceback"}
    /\ pc' = "failed"
    /\ UNCHANGED <<fusionVars, argVars, scorer, bm25_out, vec_out, top, evalVars, ingestVars>>

Rerank ==
    /\ pc = "fused"
    /\ RerankApplies
    /\ RerankerIs("available")
    /\ \E sc \in (IF run = 1 THEN ScorerFns ELSE {scorer}) :
          /\ scorer' = sc
          /\ blended' = rerank(blended, sc)
    /\ reranker' = "available"
    /\ pc' = "reranked"
    /\ UNCHANGED <<backendVars, op, w_bm25, w_vec, rrf_k, iter_order, norm_out,
                   raised, argVars, bm25_out, vec_out, top, failure, printed,
                   evalVars, ingestVars>>

(* top = blended[: args.top_n] and the printing loop *)
ShowResults ==
    /\ pc = "reranked"
    /\ top' = PySlice(blended, top_n)
    /\ printed' = printed \cup {"results"}
    /\ pc' = "done"
    /\ UNCHANGED <<fusionVars, argVars, reranker, scorer, bm25_out, vec_out,
                   failure, evalVars, ingestVars>>

(* a backend call that does not return: bm25_search and vector_search are *)
(* blocking calls made without a timeout (search.py 10-16, 32-46), so the *)
(* caller stays inside the call                                            *)
BackendStalls ==
    /\ pc \in {"start", "bm25_done"}
    /\ pc' = "stalled"
    /\ UNCHANGED <<fusionVars, argVars, reranker, scorer, bm25_out, vec_out, top,
                   failure, printed, evalVars, ingestVars>>

SearchNext ==
    \/ Bm25Search
    \/ Bm25SearchFails
    \/ VectorSearch
    \/ VectorSearchNoVss
    \/ VectorSearchFails
    \/ FuseRrf
    \/ FuseWeighted
    \/ SkipRerank
    \/ RerankNotInstalled
    \/ RerankModelFails
    \/ Rerank
    \/ ShowResults
    \/ BackendStalls

SearchSpec == SearchInit /\ [][SearchNext]_vars

(* every step the program can take is eventually taken *)
SearchFairSpec == SearchInit /\ [][SearchNext]_vars /\ WF_vars(SearchNext)

(* the same search issued a second time: same arguments, same backend      *)
(* contents, same reranker                                                 *)
Rerun ==
    /\ pc = "done"
    /\ run = 1
    /\ run' = 2
    /\ prev_top' = top
    /\ prev_blended' = blended
    /\ pc' = "start"
    /\ bm25_out' = <<>>
    /\ vec_out' = <<>>
    /\ blended' = <<>>
    /\ top' = <<>>
    /\ printed' = {}
    /\ UNCHANGED <<backendVars, op, w_bm25, w_vec, rrf_k, iter_order, norm_out,
                   raised, caller, blend, use_rerank, top_n, reranker, scorer,
                   failure, evalVars, ingestVars>>

RerunNext == SearchNext \/ Rerun

RerunSpec == SearchInit /\ [][RerunNext]_vars

----------------------------------------------------------------------------
(* The evaluator: cmd_eval of cli.py. One action per loop iteration, one   *)
(* for a backend failure inside the loop, one for the report, one for the  *)
(* early return on an empty query file.                                     *)

MaxQueries == 2

QueryTexts == {"q1", "q2", "q3"}

(* what the two backends answer to each query text (the index contents do  *)
(* not change during an evaluation run)                                     *)
BackendAnswer(q) ==
    CASE q = "q1" -> <<ScenarioLexical, <<<<"B", One>>, <<"C", One>>>>>>
      [] q = "q2" -> << <<>>, <<<<"A", One>>, <<"B", One>>>> >>
      [] OTHER    -> << <<>>, <<>> >>

RelevantLists == {<<>>, <<"C", "B">>}

(* the objects of the labeled query file; "relevant" may be absent *)
EvalItems ==
    [query : QueryTexts, relevant : RelevantLists] \cup [query : QueryTexts]

QueryFiles == UNION {[1..n -> EvalItems] : n \in 0..MaxQueries}

(* a line of a JSONL file that is empty after strip() *)
BlankLine == [blank |-> TRUE]

(* variant: a missing file is read like a file holding one blank object *)
read_jsonl_missing_as_item(file) ==
    IF ~file.exists THEN <<[query |-> "q3"]>>
    ELSE SelectSeq(file.lines, LAMBDA line : "blank" \notin DOMAIN line)

(* storage.py read_jsonl: [] for a missing file, blank lines skipped *)
read_jsonl(file) ==
    IF ~file.exists THEN <<>>
    ELSE SelectSeq(file.lines, LAMBDA line : "blank" \notin DOMAIN line)

(* the query file given with --queries: missing, empty, blank lines only,  *)
(* or labeled queries                                                      *)
QueryFileStates ==
    {NoFile} \cup {[exists |-> TRUE, lines |-> l] :
                      l \in QueryFiles \cup {<<BlankLine>>, <<BlankLine, BlankLine>>}}

(* variant: a missing label list matches every document *)
RelevantOf_missing_is_all(item) ==
    IF "relevant" \in DOMAIN item
    THEN {item.relevant[i] : i \in 1..Len(item.relevant)}
    ELSE DocIds

(* set(item.get("relevant", [])) *)
RelevantOf(item) ==
    IF "relevant" \in DOMAIN item
    THEN {item.relevant[i] : i \in 1..Len(item.relevant)}
    ELSE {}

RECURSIVE ScanLast(_, _, _, _)
ScanLast(top_ids, relevant, idx, rr) ==
    IF idx > Len(top_ids) THEN rr
    ELSE ScanLast(top_ids, relevant, idx + 1,
                  IF top_ids[idx] \in relevant THEN Rat(1, idx) ELSE rr)

(* variant: the loop has no break, the last relevant position wins *)
reciprocal_rank_no_break(top_ids, relevant) == ScanLast(top_ids, relevant, 1, Zero)

RECURSIVE ScanFirst(_, _, _)
ScanFirst(top_ids, relevant, idx) ==
    IF idx > Len(top_ids) THEN Zero
    ELSE IF top_ids[idx] \in relevant THEN Rat(1, idx)
    ELSE ScanFirst(top_ids, relevant, idx + 1)

(* rr = 0.0; for idx, doc_id in enumerate(top_ids, start=1): ... break *)
reciprocal_rank(top_ids, relevant) == ScanFirst(top_ids, relevant, 1)

(* variant: if rr == 1.0 *)
HitIncrement_rank_one_only(rr) == IF rr = One THEN 1 ELSE 0

(* variant: if rr >= 0 *)
HitIncrement_nonnegative(rr) == IF RLeq(Zero, rr) THEN 1 ELSE 0

(* if rr > 0: hit += 1 *)
HitIncrement(rr) == IF RLess(Zero, rr) THEN 1 ELSE 0

EvalInit ==
    /\ bm25_results = <<>>
    /\ vec_results = <<>>
    /\ op = "none"
    /\ w_bm25 = DefaultWBm25
    /\ w_vec = DefaultWVec
    /\ rrf_k = DefaultRrfK
    /\ iter_order = <<>>
    /\ norm_out = EmptyDict
    /\ blended = <<>>
    /\ raised = "none"
    /\ caller = "eval"
    /\ pc = "start"
    /\ blend \in BlendModes
    /\ use_rerank = FALSE
    /\ top_n \in TopNs
    /\ reranker = "unused"
    /\ scorer = EmptyDict
    /\ bm25_out = <<>>
    /\ vec_out = <<>>
    /\ top = <<>>
    /\ failure = "none"
    /\ printed = {}
    /\ run = 1
    /\ prev_top = <<>>
    /\ prev_blended = <<>>
    /\ IngestIdle
    /\ queries_file \in QueryFileStates
    /\ queries = read_jsonl(queries_file)
    /\ qi = 0
    /\ total_rr = Zero
    /\ hit = 0
    /\ eval_log = <<>>
    /\ mrr = Zero
    /\ recall_at_k = Zero

evalArgVars == <<bm25_results, vec_results, w_bm25, w_vec, rrf_k, norm_out, raised,
                 caller, blend, use_rerank, top_n, reranker, scorer, run, prev_top,
                 prev_blended, queries_file, ingestVars,
                 queries>>

InLoop == pc \in {"start", "loop"} /\ qi < Len(queries)

(* cli.py 160-163 *)
EvalNoQueries ==
    /\ pc = "start"
    /\ queries = <<>>
    /\ printed' = printed \cup {"no_queries"}
    /\ pc' = "done"
    /\ UNCHANGED <<evalArgVars, op, iter_order, blended, bm25_out, vec_out, top,
                   failure, qi, total_rr, hit, eval_log, mrr, recall_at_k>>

(* the lists the fusion call can return for this query: blend_scores      *)
(* iterates over a set of strings, in any order                            *)
FusedLists(b, v) ==
    IF blend = "rrf"
    THEN {rrf_blend(b, v, rrf_k)}
    ELSE {blend_scores(b, v, w_bm25, w_vec, order) : order \in Perms(AllIds(b, v))}

(* one iteration of the loop, cli.py 175-197 *)
EvalQuery ==
    /\ InLoop
    /\ LET item == queries[qi + 1]
           b == BackendAnswer(item.query)[1]
           v == BackendAnswer(item.query)[2]
       IN  \E fused \in FusedLists(b, v) :
           \E shown \in {PySlice(fused, top_n)} :
           \E top_ids \in {[i \in 1..Len(shown) |-> shown[i][1]]} :
           \E rr \in {reciprocal_rank(top_ids, RelevantOf(item))} :
                 /\ bm25_out' = b
                 /\ vec_out' = v
                 /\ op' = IF blend = "rrf" THEN "rrf_blend" ELSE "blend_scores"
                 /\ blended' = fused
                 /\ top' = shown
                 /\ hit' = hit + HitIncrement(rr)
                 /\ total_rr' = RAdd(total_rr, rr)
                 /\ eval_log' = Append(eval_log,
                                       [top_ids |-> top_ids, rr |-> rr,
                                        hit |-> HitIncrement(rr)])
    /\ qi' = qi + 1
    /\ pc' = "loop"
    /\ UNCHANGED <<evalArgVars, iter_order, failure, printed, mrr, recall_at_k>>

(* variant: the failing query is skipped and the loop goes on *)
EvalBackendFails_skips_query ==
    /\ InLoop
    /\ \E stage \in {"bm25_search", "vss_required", "vector_search"} :
          failure' = stage
    /\ qi' = qi + 1
    /\ pc' = "loop"
    /\ UNCHANGED <<evalArgVars, op, iter_order, blended, bm25_out, vec_out, top,
                   printed, total_rr, hit, eval_log, mrr, recall_at_k>>

(* bm25_search or vector_search raises inside the loop: nothing catches it *)
EvalBackendFails ==
    /\ InLoop
    /\ \E stage \in {"bm25_search", "vss_required", "vector_search"} :
          failure' = stage
    /\ printed' = printed \cup {"traceback"}
    /\ pc' = "failed"
    /\ UNCHANGED <<evalArgVars, op, iter_order, blended, bm25_out, vec_out, top,
                   qi, total_rr, hit, eval_log, mrr, recall_at_k>>

(* cli.py 199-203 *)
EvalReport ==
    /\ pc = "loop"
    /\ qi = Len(queries)
    /\ mrr' = RDiv(total_rr, Rat(Len(queries), 1))
    /\ recall_at_k' = Rat(hit, Len(queries))
    /\ printed' = printed \cup {"MRR", "Recall"}
    /\ pc' = "done"
    /\ UNCHANGED <<evalArgVars, op, iter_order, blended, bm25_out, vec_out, top,
                   failure, qi, total_rr, hit, eval_log>>

EvalNext ==
    \/ EvalNoQueries
    \/ EvalQuery
    \/ EvalBackendFails
    \/ EvalReport

EvalSpec == EvalInit /\ [][EvalNext]_vars

----------------------------------------------------------------------------
(* Vocabulary of the pipeline properties *)

(* the fused list the fusion step of this run produced *)
ExpectedFused ==
    IF blend = "rrf"
    THEN rrf_blend(bm25_out, vec_out, DefaultRrfK)
    ELSE blend_scores(bm25_out, vec_out, DefaultWBm25, DefaultWVec, iter_order)

FirstN(seq, n) == [i \in 1..(IF n < Len(seq) THEN n ELSE Len(seq)) |-> seq[i]]

AfterRerank == pc \in {"reranked", "done"}

BackendFailures == {"bm25_search", "vss_required", "vector_search"}

(* C11: when the relevance-scorer dependency is not installed, rerank does  *)
(* not raise: it reports the condition, returns the fused list unchanged,  *)
(* and the search goes on to truncation and output.                        *)
Thm_C11_RerankFallbackKeepsFusedList ==
    reranker = "not_installed" =>
        /\ AfterRerank
        /\ failure = "none"
        /\ "rerank_not_installed" \in printed
        /\ blended = ExpectedFused
        /\ pc = "done" => (top = FirstN(ExpectedFused, top_n) /\ "results" \in printed)

Wit_C11_FallbackResultShown ==
    /\ reranker = "not_installed"
    /\ pc = "done"
    /\ use_rerank
    /\ Len(top) >= 2
    /\ top = FirstN(ExpectedFused, top_n)

(* C12: with the scorer available, rerank returns one entry per input      *)
(* entry with the same ids, sorted in non-increasing order of the scorer's *)
(* scores; each fused score is the scorer's score of the document and both *)
(* component scores are 0.                                                 *)
Thm_C12_RerankedByScorer ==
    (reranker = "available" /\ AfterRerank) =>
        /\ Len(blended) = Len(ExpectedFused)
        /\ {blended[i][1] : i \in 1..Len(blended)}
              = {ExpectedFused[i][1] : i \in 1..Len(ExpectedFused)}
        /\ \A i, j \in 1..Len(blended) : blended[i][1] = blended[j][1] => i = j
        /\ \A i \in 1..Len(blended) - 1 : RLeq(blended[i + 1][2], blended[i][2])
        /\ \A i \in 1..Len(blended) :
              /\ blended[i][2] = scorer[blended[i][1]]
              /\ blended[i][3] = Zero
              /\ blended[i][4] = Zero

Wit_C12_RerankChangesOrder ==
    /\ reranker = "available"
    /\ AfterRerank
    /\ Len(blended) >= 2
    /\ blended[1][1] # ExpectedFused[1][1]
    /\ ExpectedFused[1][3] # Zero

(* C13: in a search call with reranking enabled the reranker is applied to *)
(* the whole fused list and the truncation comes afterwards: the returned  *)
(* list is the first top_n entries of the reranked full list and never has *)
(* more than top_n entries.                                                *)
RerankedFullList ==
    IF reranker = "available" THEN rerank(ExpectedFused, scorer) ELSE ExpectedFused

Orig_C13_RerankBeforeTruncation ==
    (pc = "done" /\ use_rerank) =>
        /\ reranker # "unused"
        /\ top = FirstN(RerankedFullList, top_n)
        /\ Len(top) <= top_n

(* C14: if the lexical or the vector backend call fails (the vss extension *)
(* neither loadable nor installable included), the search ends in a        *)
(* failure surfaced to the caller; no fusion runs and no list built from   *)
(* the surviving backend is returned or displayed.                         *)
Thm_C14_BackendFailureEndsSearch ==
    failure \in BackendFailures =>
        /\ pc = "failed"
        /\ ErrorChannel \in printed
        /\ "results" \notin printed
        /\ op = "none"
        /\ blended = <<>>
        /\ top = <<>>
        /\ ~ENABLED SearchNext

Wit_C14_VssMissingAfterLexicalHits ==
    /\ failure = "vss_required"
    /\ pc = "failed"
    /\ caller = "app"
    /\ Len(bm25_out) >= 2
    /\ printed = {"st.error"}

(* C19: two search runs with identical query, parameters and backend       *)
(* contents return identical result lists (ids, order, scores), also when  *)
(* several documents have equal fused scores.                              *)
Orig_C19_SecondRunSameResult ==
    (run = 2 /\ pc = "done") => top = prev_top

(* C20: whenever reranking is enabled the reranker is applied to the fused *)
(* list, under 'weighted' and under 'rrf' fusion, in the CLI and in the    *)
(* app alike.                                                              *)
Orig_C20_RerankInEveryModeAndCaller ==
    (AfterRerank /\ use_rerank) => reranker \in {"available", "not_installed"}

----------------------------------------------------------------------------
(* Vocabulary of the evaluator properties *)

(* the relevant set of a labeled query; empty when the label is missing *)
Labels(item) ==
    IF "relevant" \in DOMAIN item
    THEN {item.relevant[i] : i \in DOMAIN item.relevant}
    ELSE {}

(* 1-based position of the first relevant id, 0 when there is none *)
FirstRelevantPos(ids, rel) ==
    IF \E i \in 1..Len(ids) : ids[i] \in rel
    THEN CHOOSE i \in 1..Len(ids) :
            ids[i] \in rel /\ \A j \in 1..(i - 1) : ids[j] \notin rel
    ELSE 0

ExpectedRR(ids, rel) ==
    IF FirstRelevantPos(ids, rel) = 0 THEN Zero ELSE Rat(1, FirstRelevantPos(ids, rel))

RECURSIVE SumRR(_, _)
SumRR(log, n) == IF n = 0 THEN Zero ELSE RAdd(SumRR(log, n - 1), log[n].rr)

(* the ids of the top_n fused results some fusion call can give query i *)
TopIdsOfQuery(i) ==
    LET answer == BackendAnswer(queries[i].query)
    IN  {[j \in 1..Len(FirstN(fused, top_n)) |-> fused[j][1]] :
            fused \in FusedLists(answer[1], answer[2])}

HitQueries == {i \in 1..Len(eval_log) :
                 \E j \in 1..Len(eval_log[i].top_ids) :
                    eval_log[i].top_ids[j] \in Labels(queries[i])}

Unlabeled == {i \in 1..Len(eval_log) : Labels(queries[i]) = {}}

Reported == "MRR" \in printed /\ "Recall" \in printed

(* C15: for every labeled query the reciprocal rank is 1/r, r the 1-based  *)
(* position of the first document of the top_n fused results that is in    *)
(* the query's relevant set, and 0 if there is none within top_n; the      *)
(* reported MRR is the sum of the reciprocal ranks divided by the number   *)
(* of queries.                                                             *)
Thm_C15_ReciprocalRankAndMrr ==
    caller = "eval" =>
        /\ \A i \in 1..Len(eval_log) :
              /\ eval_log[i].top_ids \in TopIdsOfQuery(i)
              /\ Len(eval_log[i].top_ids) <= top_n
              /\ eval_log[i].rr = ExpectedRR(eval_log[i].top_ids, Labels(queries[i]))
        /\ total_rr = SumRR(eval_log, Len(eval_log))
        /\ Reported =>
              /\ Len(eval_log) = Len(queries)
              /\ mrr = RDiv(SumRR(eval_log, Len(queries)), Rat(Len(queries), 1))

Wit_C15_FirstRelevantAtRankTwo ==
    /\ Reported
    /\ Len(queries) = 2
    /\ eval_log[1].rr = Rat(1, 2)
    /\ Len(eval_log[1].top_ids) = 2
    /\ eval_log[1].top_ids[2] \in Labels(queries[1])
    /\ eval_log[2].rr = Zero
    /\ mrr = Rat(1, 4)

(* C16: a query is a hit if and only if at least one id of its relevant    *)
(* set is among the top_n fused results, and the reported Recall@N is the  *)
(* number of hit queries divided by the number of queries.                 *)
Thm_C16_HitsAndRecall ==
    caller = "eval" =>
        /\ \A i \in 1..Len(eval_log) : eval_log[i].hit = IF i \in HitQueries THEN 1 ELSE 0
        /\ hit = Cardinality(HitQueries)
        /\ Reported =>
              /\ Len(eval_log) = Len(queries)
              /\ RMul(recall_at_k, Rat(Len(queries), 1)) = Rat(Cardinality(HitQueries), 1)

Wit_C16_OneHitOneMiss ==
    /\ Reported
    /\ Len(queries) = 2
    /\ HitQueries = {2}
    /\ Labels(queries[1]) # {}
    /\ eval_log[1].top_ids # <<>>
    /\ recall_at_k = Rat(1, 2)

(* C17: a query whose relevant set is empty or missing adds 0 to the       *)
(* reciprocal-rank total and 0 to the hit count, still counts in the       *)
(* denominator, and causes no division by zero or other error.             *)
Thm_C17_UnlabeledQueryCountsAsMiss ==
    caller = "eval" =>
        /\ \A i \in Unlabeled : eval_log[i].rr = Zero /\ eval_log[i].hit = 0
        /\ \A i \in 1..Len(eval_log) :
              (i \in Unlabeled /\ i = Len(eval_log)) =>
                  /\ total_rr = SumRR(eval_log, i - 1)
                  /\ hit = Cardinality(HitQueries \ {i})
        /\ failure \in BackendFailures \cup {"none"}
        /\ raised = "none"
        /\ (Reported /\ Unlabeled = 1..Len(queries)) =>
              (Len(queries) > 0 /\ mrr = Zero /\ recall_at_k = Zero)
        /\ (Reported /\ Unlabeled # {}) =>
              /\ RLeq(RMul(mrr, Rat(Len(queries), 1)),
                      Rat(Len(queries) - Cardinality(Unlabeled), 1))
              /\ RLeq(RMul(recall_at_k, Rat(Len(queries), 1)),
                      Rat(Len(queries) - Cardinality(Unlabeled), 1))

Wit_C17_MissingLabelHalvesTheMean ==
    /\ Reported
    /\ failure = "none"
    /\ Len(queries) = 2
    /\ "relevant" \notin DOMAIN queries[1]
    /\ eval_log[1].top_ids # <<>>
    /\ eval_log[2].rr = One
    /\ mrr = Rat(1, 2)
    /\ recall_at_k = Rat(1, 2)

(* C18: the evaluator is fail-fast: when a backend call fails for one      *)
(* query the run aborts with that failure, no later query is processed and *)
(* no MRR or Recall of the queries that succeeded is reported.             *)
Thm_C18_EvaluatorFailFast ==
    (caller = "eval" /\ failure # "none") =>
        /\ pc = "failed"
        /\ failure \in BackendFailures
        /\ "traceback" \in printed
        /\ "MRR" \notin printed
        /\ "Recall" \notin printed
        /\ mrr = Zero
        /\ recall_at_k = Zero
        /\ qi < Len(queries)
        /\ Len(eval_log) = qi
        /\ ~ENABLED EvalNext

Wit_C18_AbortAfterOneScoredQuery ==
    /\ caller = "eval"
    /\ pc = "failed"
    /\ failure = "vector_search"
    /\ Len(queries) = 2
    /\ qi = 1
    /\ total_rr = One
    /\ printed = {"traceback"}

----------------------------------------------------------------------------
(* Further properties of the search pipeline *)

RerankerUnavailable == reranker \in {"not_installed", "model_fails"}

(* C21: reranker unavailability is never fatal: with reranking enabled and *)
(* the relevance model unusable (dependency absent, or the named model     *)
(* missing or failing to load or score), the search still completes and    *)
(* returns the pre-rerank fused list.                                      *)
Orig_C21_RerankerUnavailableNeverFatal ==
    (use_rerank /\ RerankerUnavailable) =>
        /\ failure = "none"
        /\ AfterRerank
        /\ blended = ExpectedFused
        /\ pc = "done" => top = FirstN(ExpectedFused, top_n)

FusionDone == pc \in {"fused", "reranked", "done"}

(* C22: within one search call the fusion starts only after both backend   *)
(* calls have completed, and the fused result depends only on the final    *)
(* contents of the two lists (a second call over the same contents fuses   *)
(* to the same list), never on the order of the backend calls.             *)
Orig_C22_FusionDependsOnlyOnContents ==
    /\ FusionDone => (bm25_out = bm25_results /\ vec_out = vec_results)
    /\ (run = 2 /\ pc = "fused" /\ ~use_rerank) => blended = prev_blended

(* C23: a search call has an overall deadline: when a backend call does    *)
(* not complete, the search ends with a timeout error instead of waiting   *)
(* indefinitely.                                                           *)
Orig_C23_StalledSearchTimesOut ==
    (pc = "stalled") ~> (pc = "failed" /\ failure = "timeout")

----------------------------------------------------------------------------
(* The stores behind the backends: cmd_ingest, cmd_index and cmd_embed of  *)
(* cli.py, build_whoosh_index of indexer.py, and the two backend queries   *)
(* over what they built.  A document is its record; only doc_id matters.   *)

MaxDocs == 2

RawDocIds == {"A", " A", "B", " "}

(* str.strip() on the enumerated ids *)
strip(id) == CASE id = " A" -> "A" [] id = " " -> "" [] OTHER -> id

NoIdDoc == [title |-> "t"]

IngestDocs == [doc_id : RawDocIds] \cup {NoIdDoc}

(* str(doc.get("doc_id", "")) *)
DocIdOf(doc) == IF "doc_id" \in DOMAIN doc THEN doc.doc_id ELSE ""

InputFiles(n) ==
    {NoFile} \cup {[exists |-> TRUE, lines |-> l] :
                     l \in UNION {[1..k -> IngestDocs] : k \in 0..n}}

(* args.input: one file of up to MaxDocs lines, or two files of up to one *)
InputLists ==
    {<<f>> : f \in InputFiles(MaxDocs)} \cup (InputFiles(1) \X InputFiles(1))

(* variant: every document is kept, as in a list *)
DictSet_append(d, key, value) == Append(d, <<key, value>>)

(* merged[doc_id] = doc on an insertion-ordered dict *)
DictSet(d, key, value) ==
    IF \E i \in 1..Len(d) : d[i][1] = key
    THEN [i \in 1..Len(d) |-> IF d[i][1] = key THEN <<key, value>> ELSE d[i]]
    ELSE Append(d, <<key, value>>)

(* the inner loop of cmd_ingest, cli.py 26-30 *)
RECURSIVE MergeDocs(_, _, _)
MergeDocs(merged, items, i) ==
    IF i > Len(items) THEN merged
    ELSE LET doc_id == strip(DocIdOf(items[i]))
         IN  IF doc_id = ""
             THEN MergeDocs(merged, items, i + 1)
             ELSE MergeDocs(DictSet(merged, doc_id, items[i]), items, i + 1)

(* the outer loop of cmd_ingest, cli.py 24-25 *)
RECURSIVE MergeFiles(_, _, _)
MergeFiles(merged, input, i) ==
    IF i > Len(input) THEN merged
    ELSE MergeFiles(MergeDocs(merged, read_jsonl(input[i]), 1), input, i + 1)

(* what the inputs of the ingests so far contained (history, for the       *)
(* properties)                                                             *)
AllLines(input) ==
    IF Len(input) = 1 THEN read_jsonl(input[1])
    ELSE read_jsonl(input[1]) \o read_jsonl(input[2])

SeenIn(input) ==
    LET lines == AllLines(input)
    IN  (IF \E i, j \in 1..Len(lines) :
               i # j /\ DocIdOf(lines[i]) # "" /\ DocIdOf(lines[i]) = DocIdOf(lines[j])
         THEN {"repeated_id"} ELSE {})
        \cup (IF \E i, j \in 1..Len(lines) :
                    /\ DocIdOf(lines[i]) # DocIdOf(lines[j])
                    /\ strip(DocIdOf(lines[i])) = strip(DocIdOf(lines[j]))
                    /\ strip(DocIdOf(lines[i])) # ""
              THEN {"whitespace_variant"} ELSE {})
        \cup (IF \E i \in 1..Len(lines) : strip(DocIdOf(lines[i])) = ""
              THEN {"blank_id"} ELSE {})

IngestInit ==
    /\ SearchIdle
    /\ EvalIdle
    /\ IngestIdle
    /\ bm25_results = <<>>
    /\ vec_results = <<>>
    /\ op = "none"
    /\ w_bm25 = Zero
    /\ w_vec = Zero
    /\ rrf_k = 0
    /\ iter_order = <<>>
    /\ norm_out = EmptyDict
    /\ blended = <<>>
    /\ raised = "none"

(* the commands run in any order and number while pc = "idle"; the two    *)
(* backend queries then read what the commands built                       *)
storeFrame == <<op, w_bm25, w_vec, rrf_k, iter_order, norm_out, blended, raised,
                caller, blend, use_rerank, top_n, reranker, scorer, bm25_out,
                vec_out, top, failure, printed, run, prev_top, prev_blended,
                evalVars>>

(* cli.py 21-32: the corpus file is rewritten from the merged dict *)
cmd_ingest ==
    /\ pc = "idle"
    /\ \E input \in InputLists :
       \E merged \in {MergeFiles(<<>>, input, 1)} :
          /\ corpus' = [i \in 1..Len(merged) |-> merged[i][2]]
          /\ ingest_seen' = ingest_seen \cup SeenIn(input)
    /\ UNCHANGED <<storeFrame, pc, bm25_results, vec_results, whoosh_index,
                   doc_vectors>>

(* cli.py 35-43 and indexer.py 18-38: nothing is done for an empty corpus; *)
(* otherwise create_in starts an empty index and add_document adds one    *)
(* entry per corpus document                                              *)
cmd_index ==
    /\ pc = "idle"
    /\ whoosh_index' =
          IF corpus = <<>> THEN whoosh_index
          ELSE [built |-> TRUE,
                docs |-> [i \in 1..Len(corpus) |-> DocIdOf(corpus[i])]]
    /\ UNCHANGED <<storeFrame, pc, bm25_results, vec_results, corpus, doc_vectors,
                   ingest_seen>>

(* INSERT OR REPLACE INTO doc_vectors on the primary key doc_id *)
Upsert(rows, id) == SelectSeq(rows, LAMBDA r : r # id) \o <<id>>

RECURSIVE UpsertAll(_, _, _)
UpsertAll(rows, docs, i) ==
    IF i > Len(docs) THEN rows
    ELSE UpsertAll(Upsert(rows, DocIdOf(docs[i])), docs, i + 1)

(* cli.py 46-88: nothing is done for an empty corpus *)
cmd_embed ==
    /\ pc = "idle"
    /\ \E rebuild \in BOOLEAN :
          doc_vectors' =
             IF corpus = <<>> THEN doc_vectors
             ELSE [built |-> TRUE,
                   rows |-> UpsertAll(IF rebuild THEN <<>> ELSE doc_vectors.rows,
                                      corpus, 1)]
    /\ UNCHANGED <<storeFrame, pc, bm25_results, vec_results, corpus, whoosh_index,
                   ingest_seen>>

(* search.py 10-16: the hits of some query, one per matching index entry *)
bm25_search ==
    /\ pc = "idle"
    /\ whoosh_index.built
    /\ \E hits \in SUBSET (1..Len(whoosh_index.docs)) :
          LET positions == SelectSeq([i \in 1..Len(whoosh_index.docs) |-> i],
                                     LAMBDA i : i \in hits)
          IN  bm25_results' =
                 [n \in 1..Len(positions) |-> <<whoosh_index.docs[positions[n]], One>>]
    /\ pc' = "bm25_done"
    /\ UNCHANGED <<storeFrame, vec_results, ingestVars>>

(* search.py 32-46: the first k rows of the table *)
vector_search ==
    /\ pc \in {"idle", "bm25_done"}
    /\ doc_vectors.built
    /\ \E k \in 0..Len(doc_vectors.rows) :
          vec_results' = [n \in 1..k |-> <<doc_vectors.rows[n], One>>]
    /\ pc' = "vec_done"
    /\ UNCHANGED <<storeFrame, bm25_results, ingestVars>>

IngestNext ==
    \/ cmd_ingest
    \/ cmd_index
    \/ cmd_embed
    \/ bm25_search
    \/ vector_search

IngestSpec == IngestInit /\ [][IngestNext]_vars

(* C24: after any sequence of ingest, index and embed commands over       *)
(* arbitrary input files (doc_ids repeated, differing only by surrounding *)
(* whitespace, or blank), the lists returned by the lexical and by the    *)
(* vector backend never contain the same document_id twice.               *)
Thm_C24_BackendListsWithoutDuplicates ==
    /\ NoDuplicateIds(bm25_results)
    /\ NoDuplicateIds(vec_results)

Wit_C24_RepeatedAndVariantIdsIngested ==
    /\ ingest_seen = {"repeated_id", "whitespace_variant", "blank_id"}
    /\ Len(bm25_results) = 2
    /\ Len(vec_results) = 3
    /\ IdsOf(vec_results) = {"A", " A", "B"}
    /\ \E i \in 1..Len(bm25_results) : bm25_results[i][1] = " A"

----------------------------------------------------------------------------
(* Further properties of the evaluator *)

(* every hit query has its first relevant document at rank 1 *)
AllHitsAtRankOne ==
    \A i \in HitQueries :
        FirstRelevantPos(eval_log[i].top_ids, Labels(queries[i])) = 1

(* C25: for every non-empty labeled query set and every top_n >= 1 the    *)
(* results satisfy 0 <= MRR <= Recall@N <= 1, and MRR = Recall@N exactly   *)
(* when every hit query has its first relevant document at rank 1.         *)
Thm_C25_MrrAtMostRecall ==
    (caller = "eval" /\ Reported) =>
        /\ Len(queries) > 0
        /\ top_n >= 1
        /\ RLeq(Zero, mrr)
        /\ RLeq(mrr, recall_at_k)
        /\ RLeq(recall_at_k, One)
        /\ (mrr = recall_at_k) <=> AllHitsAtRankOne

Wit_C25_MrrStrictlyBelowRecall ==
    /\ caller = "eval"
    /\ Reported
    /\ RLess(Zero, mrr)
    /\ RLess(mrr, recall_at_k)
    /\ RLess(recall_at_k, One)
    /\ ~AllHitsAtRankOne

(* the query file is missing or holds no query *)
NoQueriesInFile ==
    \/ ~queries_file.exists
    \/ \A i \in 1..Len(queries_file.lines) : queries_file.lines[i] = BlankLine

(* C26: if the labeled query file is missing or contains no queries, the   *)
(* eval command returns early after reporting that no queries were found:  *)
(* no backend call, no division by the query count, no MRR or Recall       *)
(* printed.                                                                *)
Thm_C26_NoQueriesReturnsEarly ==
    (caller = "eval" /\ NoQueriesInFile) =>
        /\ queries = <<>>
        /\ pc \in {"start", "done"}
        /\ pc = "done" => printed = {"no_queries"}
        /\ pc = "start" => (printed = {} /\ ENABLED EvalNoQueries)
        /\ failure = "none"
        /\ qi = 0
        /\ eval_log = <<>>
        /\ op = "none"
        /\ bm25_out = <<>>
        /\ vec_out = <<>>
        /\ mrr = Zero
        /\ recall_at_k = Zero

Wit_C26_MissingQueryFileReported ==
    /\ caller = "eval"
    /\ ~queries_file.exists
    /\ pc = "done"
    /\ printed = {"no_queries"}

====
